---- MODULE Spec2Model ----
(***************************************************************************)
(* Model of expected_frequencies: the conversion of risk measures to an    *)
(* absolute risk (risk_conversions.py), the expected-frequency calculation *)
(* and the icon-array source data (expected_frequencies.py).               *)
(*                                                                         *)
(* Python numbers are modelled as exact rationals that carry their Python  *)
(* type: [type |-> "int" | "float", num, den] in lowest terms, den > 0.    *)
(* Strings whose characters matter (the kind name) are sequences of        *)
(* one-character strings.                                                  *)
(***************************************************************************)
EXTENDS Integers, Sequences, FiniteSets, TLC

VARIABLES
    called,       \* the function the caller has called ("none": no call under way)
    args,         \* the arguments of the call
    returned,     \* the value the call returned (None when it raised)
    raised,       \* the exception the call raised (NoError when it returned)
    evaluated,    \* the conversion functions evaluated during the call
    warned,       \* the warnings.warn calls made during the call
    plot_kwargs,  \* the caller's plot_kwargs object, as the call leaves it
    built_dict,   \* the items of the dict a caller built to pass as plot_kwargs
    caller_dict,  \* the items that dict object holds now
    title_writer, \* the thread whose call wrote caller_dict["title"] (0: no call)
    frames        \* the frame of each thread's call of expected_frequencies

call_vars == <<called, args, returned, raised, evaluated, warned, plot_kwargs>>
caller_vars == <<built_dict, caller_dict, title_writer, frames>>
vars == <<called, args, returned, raised, evaluated, warned, plot_kwargs,
          built_dict, caller_dict, title_writer, frames>>

(***************************************************************************)
(* Bounds of the input space.                                              *)
(***************************************************************************)
\* baseline risks are the fractions p/q with 1 <= q <= MaxRiskDen
MaxRiskDen == 5
\* added risks are the halves and integers of absolute value <= MaxAddedRisk
MaxAddedRisk == 3
\* population sizes run over 0..MaxPopulation
MaxPopulation == 20
\* expected frequencies run from -MaxExcess to MaxPopulation + MaxExcess
MaxExcess == 3
\* the text precision runs over -1..MaxPrecision
MaxPrecision == 1
\* the first MaxCasePos characters of a kind name are upper-cased independently
MaxCasePos == 2
\* the largest expected frequency handed to _plot_isotype_array directly
MaxIconCount == 4
\* the bits of the significand of the floats whose rounding is modelled (a
\* Python float has 53)
MantissaBits == 4
\* the odds ratios with modelled rounding are below 2^(MaxOddsExp + 2)
MaxOddsExp == 4
\* the population size that a rounded exposed risk is scaled with
ScaledPopulation == 10

(***************************************************************************)
(* Python numbers.                                                         *)
(***************************************************************************)
Abs(i) == IF i < 0 THEN -i ELSE i

RECURSIVE Gcd(_, _)
Gcd(a, b) == IF b = 0 THEN a ELSE Gcd(b, a % b)

\* the number n/d (d # 0) of Python type t, in lowest terms
Num(t, n, d) ==
    LET g == Gcd(Abs(n), Abs(d))
        s == IF d < 0 THEN -1 ELSE 1
    IN  [type |-> t, num |-> s * (n \div g), den |-> s * (d \div g)]

PyInt(i) == Num("int", i, 1)
PyFloat(n, d) == Num("float", n, d)

\* the type of the result of +, - and * (an int only when both operands are)
Coerce(x, y) == IF x.type = "int" /\ y.type = "int" THEN "int" ELSE "float"

Add(x, y) == Num(Coerce(x, y), x.num * y.den + y.num * x.den, x.den * y.den)
Sub(x, y) == Num(Coerce(x, y), x.num * y.den - y.num * x.den, x.den * y.den)
Mul(x, y) == Num(Coerce(x, y), x.num * y.num, x.den * y.den)
\* true division x / y for y # 0: always a float
TrueDiv(x, y) == Num("float", x.num * y.den, x.den * y.num)

IsZero(x) == x.num = 0
\* Python ==, <, <= on numbers compare values, not types
NumEq(x, y) == x.num * y.den = y.num * x.den
NumLt(x, y) == x.num * y.den < y.num * x.den
NumLe(x, y) == x.num * y.den <= y.num * x.den

None == [type |-> "NoneType"]
\* exceptions are [type, message]; NoError stands for a normal return
NoError == [type |-> "NoError", message |-> <<>>]
ZeroDivisionError == [type |-> "ZeroDivisionError", message |-> <<"division by zero">>]

\* the outcome of evaluating an expression: a value, or an exception
Ok(v) == [exc |-> NoError, val |-> v]
Raise(e) == [exc |-> e, val |-> None]

(***************************************************************************)
(* str.lower() on the characters a kind name can hold.                     *)
(***************************************************************************)
\* c.lower() of one character: an upper-case letter becomes its lower-case
\* letter, any other character is kept
char_lower(c) ==
    CASE c = "A" -> "a" [] c = "B" -> "b" [] c = "C" -> "c" [] c = "D" -> "d"
      [] c = "E" -> "e" [] c = "F" -> "f" [] c = "G" -> "g" [] c = "H" -> "h"
      [] c = "I" -> "i" [] c = "J" -> "j" [] c = "K" -> "k" [] c = "L" -> "l"
      [] c = "M" -> "m" [] c = "N" -> "n" [] c = "O" -> "o" [] c = "P" -> "p"
      [] c = "Q" -> "q" [] c = "R" -> "r" [] c = "S" -> "s" [] c = "T" -> "t"
      [] c = "U" -> "u" [] c = "V" -> "v" [] c = "W" -> "w" [] c = "X" -> "x"
      [] c = "Y" -> "y" [] c = "Z" -> "z"
      [] OTHER -> c

\* c.upper() of one character
char_upper(c) ==
    CASE c = "a" -> "A" [] c = "b" -> "B" [] c = "c" -> "C" [] c = "d" -> "D"
      [] c = "e" -> "E" [] c = "f" -> "F" [] c = "g" -> "G" [] c = "h" -> "H"
      [] c = "i" -> "I" [] c = "j" -> "J" [] c = "k" -> "K" [] c = "l" -> "L"
      [] c = "m" -> "M" [] c = "n" -> "N" [] c = "o" -> "O" [] c = "p" -> "P"
      [] c = "q" -> "Q" [] c = "r" -> "R" [] c = "s" -> "S" [] c = "t" -> "T"
      [] c = "u" -> "U" [] c = "v" -> "V" [] c = "w" -> "W" [] c = "x" -> "X"
      [] c = "y" -> "Y" [] c = "z" -> "Z"
      [] OTHER -> c

str_lower(s) == [i \in 1..Len(s) |-> char_lower(s[i])]
str_upper(s) == [i \in 1..Len(s) |-> char_upper(s[i])]

(***************************************************************************)
(* risk_conversions.py                                                     *)
(***************************************************************************)
\* mutant: the sign of the OR * baseline_risk term is flipped
odds_ratio_denominator_minus(baseline_risk, odds_ratio) ==
    Sub(Sub(PyInt(1), baseline_risk), Mul(odds_ratio, baseline_risk))

\* the denominator of the odds-ratio conversion
odds_ratio_denominator(baseline_risk, odds_ratio) ==
    Add(Sub(PyInt(1), baseline_risk), Mul(odds_ratio, baseline_risk))

\* mutant: the odds ratio in the denominator is not weighted by baseline_risk
odds_ratio_to_risk_ratio_unweighted(baseline_risk, odds_ratio) ==
    LET den == Add(Sub(PyInt(1), baseline_risk), odds_ratio)
    IN  IF IsZero(den) THEN Raise(ZeroDivisionError)
        ELSE Ok(TrueDiv(odds_ratio, den))

odds_ratio_to_risk_ratio(baseline_risk, odds_ratio) ==
    LET den == odds_ratio_denominator(baseline_risk, odds_ratio)
    IN  IF IsZero(den) THEN Raise(ZeroDivisionError)
        ELSE Ok(TrueDiv(odds_ratio, den))

\* Line 11: rr = (1 - (1 - baseline_risk) ** hazard_ratio) / baseline_risk.
\* The value is overwritten on line 12, so only whether line 11 raises is
\* kept: 0 ** (negative) raises, and so does the division by a zero
\* baseline_risk. (A negative base with a fractional exponent gives a complex
\* number, and does not raise; the float overflow of ** needs exponents far
\* beyond the inputs used here.)
hazard_ratio_survival_raises(baseline_risk, hazard_ratio) ==
    \/ IsZero(Sub(PyInt(1), baseline_risk)) /\ hazard_ratio.num < 0
    \/ IsZero(baseline_risk)

hazard_ratio_to_risk_ratio(baseline_risk, hazard_ratio) ==
    IF hazard_ratio_survival_raises(baseline_risk, hazard_ratio)
    THEN Raise(ZeroDivisionError)
    ELSE Ok(hazard_ratio)

risk_ratio_to_risk_ratio(baseline_risk, risk_ratio) == Ok(risk_ratio)

\* mutant: the percentage is not divided by 100
percentage_change_to_risk_ratio_undivided(baseline_risk, percentage_change) ==
    Ok(Add(PyInt(1), percentage_change))

percentage_change_to_risk_ratio(baseline_risk, percentage_change) ==
    Ok(Add(PyInt(1), TrueDiv(percentage_change, PyInt(100))))

odds_ratio_name == <<"o", "d", "d", "s", "_", "r", "a", "t", "i", "o">>
hazard_ratio_name == <<"h", "a", "z", "a", "r", "d", "_", "r", "a", "t", "i", "o">>
percentage_change_name == <<"p", "e", "r", "c", "e", "n", "t", "a", "g", "e", "_",
                            "c", "h", "a", "n", "g", "e">>
risk_ratio_name == <<"r", "i", "s", "k", "_", "r", "a", "t", "i", "o">>
relative_risk_name == <<"r", "e", "l", "a", "t", "i", "v", "e", "_", "r", "i", "s", "k">>

\* mutant: relative_risk is registered with the wrong conversion function
risk_ratio_conversion_funcs_wrong_alias ==
    << <<odds_ratio_name, "__odds_ratio_to_risk_ratio">>,
       <<hazard_ratio_name, "__hazard_ratio_to_risk_ratio">>,
       <<percentage_change_name, "__percentage_change_to_risk_ratio">>,
       <<risk_ratio_name, "__risk_ratio_to_risk_ratio">>,
       <<relative_risk_name, "__percentage_change_to_risk_ratio">> >>

\* the dict, in insertion order: <<key, conversion function>>
risk_ratio_conversion_funcs ==
    << <<odds_ratio_name, "__odds_ratio_to_risk_ratio">>,
       <<hazard_ratio_name, "__hazard_ratio_to_risk_ratio">>,
       <<percentage_change_name, "__percentage_change_to_risk_ratio">>,
       <<risk_ratio_name, "__risk_ratio_to_risk_ratio">>,
       <<relative_risk_name, "__risk_ratio_to_risk_ratio">> >>

\* list(d.keys())
dict_keys(d) == [i \in 1..Len(d) |-> d[i][1]]

\* d.get(key): the value stored under key, or None
dict_get(d, key) ==
    IF \E i \in 1..Len(d) : d[i][1] = key
    THEN d[CHOOSE i \in 1..Len(d) : d[i][1] = key][2]
    ELSE "None"

\* conversion_func(baseline_risk, added_risk)
conversion_call(conversion_func, baseline_risk, added_risk) ==
    CASE conversion_func = "__odds_ratio_to_risk_ratio" ->
            odds_ratio_to_risk_ratio(baseline_risk, added_risk)
      [] conversion_func = "__hazard_ratio_to_risk_ratio" ->
            hazard_ratio_to_risk_ratio(baseline_risk, added_risk)
      [] conversion_func = "__percentage_change_to_risk_ratio" ->
            percentage_change_to_risk_ratio(baseline_risk, added_risk)
      [] conversion_func = "__risk_ratio_to_risk_ratio" ->
            risk_ratio_to_risk_ratio(baseline_risk, added_risk)

ValueError(message) == [type |-> "ValueError", message |-> message]

\* the unsupported-kind error of lines 38-40
unsupported_kind ==
    [exc |-> ValueError(<<"Only supported conversion functions are ",
                          dict_keys(risk_ratio_conversion_funcs)>>),
     val |-> None, evaluated |-> <<>>]

\* lines 42-43, given the outcome of conversion_func(baseline_risk, added_risk)
exposed_risk(baseline_risk, conversion_func, risk_ratio) ==
    IF risk_ratio.exc # NoError
    THEN [exc |-> risk_ratio.exc, val |-> None, evaluated |-> <<conversion_func>>]
    ELSE [exc |-> NoError, val |-> Mul(baseline_risk, risk_ratio.val),
          evaluated |-> <<conversion_func>>]

\* lines 38-43, given the conversion function the lookup found
convert_with(baseline_risk, added_risk, conversion_func) ==
    IF conversion_func = "None"
    THEN unsupported_kind
    ELSE exposed_risk(baseline_risk, conversion_func,
                      conversion_call(conversion_func, baseline_risk, added_risk))

\* mutant (lookup of the fallback mutant below): a kind that is not
\* registered gets the risk-ratio conversion
dict_get_or_risk_ratio(d, key) ==
    IF \E i \in 1..Len(d) : d[i][1] = key
    THEN d[CHOOSE i \in 1..Len(d) : d[i][1] = key][2]
    ELSE "__risk_ratio_to_risk_ratio"

\* mutant: a kind that is not registered falls back to the risk-ratio conversion
calculate_exposed_absolute_risk_fallback(baseline_risk, added_risk, added_risk_type) ==
    convert_with(baseline_risk, added_risk,
                 dict_get_or_risk_ratio(risk_ratio_conversion_funcs,
                                        str_lower(added_risk_type)))

\* mutant: the kind is looked up as given, without lower-casing it
calculate_exposed_absolute_risk_case_sensitive(baseline_risk, added_risk, added_risk_type) ==
    convert_with(baseline_risk, added_risk,
                 dict_get(risk_ratio_conversion_funcs, added_risk_type))

\* The outcome of calculate_exposed_absolute_risk: the value or the exception,
\* and the conversion functions that were evaluated on the way.
calculate_exposed_absolute_risk(baseline_risk, added_risk, added_risk_type) ==
    convert_with(baseline_risk, added_risk,
                 dict_get(risk_ratio_conversion_funcs, str_lower(added_risk_type)))

(***************************************************************************)
(* expected_frequencies.py: the source data of the icon array.             *)
(***************************************************************************)
\* The positions (1-based) of the rows that data[start:stop] and data[:stop]
\* select in a list of n rows. A negative index counts from the end of the
\* list, and an index beyond either end is clamped.
slice_bound(index, n) ==
    IF index < 0 THEN (IF index + n < 0 THEN 0 ELSE index + n)
    ELSE IF index > n THEN n ELSE index

slice_rows(start, stop, n) == (slice_bound(start, n) + 1)..slice_bound(stop, n)

slice_head(stop, n) == 1..slice_bound(stop, n)

\* for row in rows: row[key] = value
set_rows(data, rows, key, value) ==
    [i \in 1..Len(data) |->
        IF i \in rows THEN [data[i] EXCEPT ![key] = value] ELSE data[i]]

\* mutant: the units to cross out are taken from the start of the list
reduced_rows_from_zero(baseline_ef, exposed_ef, n) ==
    slice_rows(0, baseline_ef - exposed_ef, n)

\* mutant: the window of units to cross out starts and ends one row late
reduced_rows_shifted(baseline_ef, exposed_ef, n) ==
    slice_rows(baseline_ef - exposed_ef + 1, baseline_ef + 1, n)

\* data[baseline_ef - exposed_ef:baseline_ef]
reduced_rows(baseline_ef, exposed_ef, n) ==
    slice_rows(baseline_ef - exposed_ef, baseline_ef, n)

\* mutant: the exposed units start one row late
exposed_rows_late(baseline_ef, exposed_ef, n) ==
    slice_rows(baseline_ef + 1, exposed_ef, n)

\* data[baseline_ef:exposed_ef]
exposed_rows(baseline_ef, exposed_ef, n) ==
    slice_rows(baseline_ef, exposed_ef, n)

\* lines 304-309, given the rows after line 303
mark_rows(with_baseline, baseline_ef, exposed_ef, n) ==
    IF exposed_ef >= baseline_ef
    THEN set_rows(with_baseline, exposed_rows(baseline_ef, exposed_ef, n), "hue", 2)
    ELSE set_rows(with_baseline, reduced_rows(baseline_ef, exposed_ef, n),
                  "reduced", TRUE)

\* lines 300-309 for a list of n rows
source_rows(baseline_ef, exposed_ef, n) ==
    mark_rows(set_rows([i \in 1..n |-> [id |-> i, hue |-> 0, reduced |-> FALSE]],
                       slice_head(baseline_ef, n), "hue", 1),
              baseline_ef, exposed_ef, n)

\* mutant: the list grows to hold every exposed unit
generate_chart_source_data_extending(baseline_ef, exposed_ef, population_size) ==
    source_rows(baseline_ef, exposed_ef,
                IF exposed_ef > population_size THEN exposed_ef ELSE population_size)

\* __generate_chart_source_data: the values of the alt.Data it returns
generate_chart_source_data(baseline_ef, exposed_ef, population_size) ==
    source_rows(baseline_ef, exposed_ef,
                IF population_size < 0 THEN 0 ELSE population_size)

(***************************************************************************)
(* expected_frequencies.py: expected frequencies, text and chart.          *)
(***************************************************************************)
\* lines 196-198, given the outcome of calculate_exposed_absolute_risk
scale_risks(baseline_risk, population_size, exposed_absolute_risk) ==
    IF exposed_absolute_risk.exc # NoError
    THEN exposed_absolute_risk
    ELSE [exc |-> NoError,
          val |-> <<Mul(PyInt(population_size), baseline_risk),
                    Mul(PyInt(population_size), exposed_absolute_risk.val)>>,
          evaluated |-> exposed_absolute_risk.evaluated]

\* _calculate_expected_frequencies: the pair (baseline_ef, exposed_ef), or the
\* exception of calculate_exposed_absolute_risk
calculate_expected_frequencies(baseline_risk, added_risk, added_risk_type, population_size) ==
    scale_risks(baseline_risk, population_size,
                calculate_exposed_absolute_risk(baseline_risk, added_risk,
                                                added_risk_type))

\* the integer nearest to n / d (d > 0), a tie going to the even one
round_half_even(n, d) ==
    LET floor == n \div d
        twice_rest == 2 * (n - floor * d)
    IN  IF twice_rest < d THEN floor
        ELSE IF twice_rest > d THEN floor + 1
        ELSE IF floor % 2 = 0 THEN floor ELSE floor + 1

\* mutant: a tie goes up
py_round_half_up(x) ==
    IF x.type = "int" THEN x.num ELSE (2 * x.num + x.den) \div (2 * x.den)

\* round(x): an int
py_round(x) == IF x.type = "int" THEN x.num ELSE round_half_even(x.num, x.den)

RECURSIVE Pow10(_)
Pow10(k) == IF k <= 0 THEN 1 ELSE 10 * Pow10(k - 1)

\* The pieces of a string. A string handed in by the caller is a sequence
\* of words, with "{" and "}" as words of their own; in a text, "{", "}",
\* "," and "\n" are pieces of their own, so that format, replace and split
\* can find them.
Lit(s) == [lit |-> s]
Name(s) == [name |-> s]
Comma == [lit |-> ","]
Newline == [lit |-> "\n"]
Open == [lit |-> "{"]
Close == [lit |-> "}"]
\* {population_size:d}
Decimal(i) == [decimal |-> i]
\* {ef:.{precision}f}: ef rounded to precision decimals, in units of 10^-precision
Fixed(ef, precision) ==
    [fixed |-> round_half_even(ef.num * Pow10(precision), ef.den), decimals |-> precision]
\* str(ef)
Repr(ef) == [repr |-> ef]
\* the text ef:.{precision}f that the f-string leaves between "{" and "}"
EfField(precision) == [field |-> "ef", precision |-> precision]

KeyError(message) == [type |-> "KeyError", message |-> message]
IndexError(message) == [type |-> "IndexError", message |-> message]

\* a caller's string as it is interpolated by the f-string
name_pieces(name) ==
    [i \in 1..Len(name) |->
        IF name[i] = "{" THEN Open ELSE IF name[i] = "}" THEN Close ELSE Name(name[i])]

\* base_text (lines 203-207): the f-string interpolates population_size,
\* precision and the names, and leaves the fields {exposed} and {ef:.<p>f}
base_text(population_size, precision, population_name, event_name, risk_factor_name, followup_duration) ==
    <<Lit("Out of "), Decimal(population_size), Lit(" ")>>
    \o name_pieces(population_name)
    \o <<Lit(" who did "), Open, Lit("exposed"), Close>>
    \o name_pieces(risk_factor_name)
    \o <<Comma, Lit(" we should expect "), Open, EfField(precision), Close,
         Lit(" of them to also have ")>>
    \o name_pieces(event_name)
    \o (IF followup_duration # <<>>
        THEN <<Lit(" over ")>> \o name_pieces(followup_duration) ELSE <<>>)
    \o <<Lit("."), Newline>>

\* str.format: the value of one replacement field {piece}
format_field(piece, ef, exposed) ==
    IF "field" \in DOMAIN piece
    THEN (IF piece.precision < 0
          THEN Raise(ValueError(<<"Format specifier missing precision">>))
          ELSE Ok(Fixed(ef, piece.precision)))
    ELSE IF "decimal" \in DOMAIN piece
    THEN Raise(IndexError(<<"Replacement index out of range for positional args tuple">>))
    ELSE IF piece \in {Lit("ef"), Name("ef")} THEN Ok(Repr(ef))
    ELSE IF piece \in {Lit("exposed"), Name("exposed")} THEN Ok(Lit(exposed))
    ELSE Raise(KeyError(<<piece>>))

\* str.format: the position of the first brace after an opening brace at
\* position 1, or 0 if there is none
field_end(template) ==
    IF \E j \in 2..Len(template) : template[j] \in {Open, Close}
    THEN CHOOSE j \in 2..Len(template) :
            /\ template[j] \in {Open, Close}
            /\ \A k \in 2..(j - 1) : template[k] \notin {Open, Close}
    ELSE 0

\* str.format on a template that starts with an opening brace: "{{" is a
\* brace, "{}" asks for a positional argument, "{word}" is a field, and every
\* other form is an error
RECURSIVE format_pieces(_, _, _, _)
format_open(template, ef, exposed, out, end) ==
    IF end = 0
    THEN Raise(ValueError(<<"expected '}' before end of string">>))
    ELSE IF end = 2
    THEN (IF template[2] = Open
          THEN format_pieces(SubSeq(template, 3, Len(template)), ef, exposed,
                             Append(out, Open))
          ELSE Raise(IndexError(<<"Replacement index 0 out of range for positional args tuple">>)))
    ELSE IF template[end] = Open
    THEN Raise(ValueError(<<"unexpected '{' in field name">>))
    ELSE IF end > 3
    THEN Raise(KeyError(SubSeq(template, 2, end - 1)))
    ELSE IF format_field(template[2], ef, exposed).exc # NoError
    THEN Raise(format_field(template[2], ef, exposed).exc)
    ELSE format_pieces(SubSeq(template, 4, Len(template)), ef, exposed,
                       Append(out, format_field(template[2], ef, exposed).val))

\* template.format(ef=ef, exposed=exposed), appended to out (line 211)
format_pieces(template, ef, exposed, out) ==
    IF template = <<>> THEN Ok(out)
    ELSE IF Head(template) = Open
    THEN format_open(template, ef, exposed, out, field_end(template))
    ELSE IF Head(template) = Close
    THEN (IF Len(template) >= 2 /\ template[2] = Close
          THEN format_pieces(SubSeq(template, 3, Len(template)), ef, exposed,
                             Append(out, Close))
          ELSE Raise(ValueError(<<"Single '}' encountered in format string">>)))
    ELSE format_pieces(Tail(template), ef, exposed, Append(out, Head(template)))

\* lines 210-211, second turn of the loop, given the outcome of the first
exposed_sentence(text, template, exposed_ef) ==
    IF text.exc # NoError THEN text
    ELSE format_pieces(template, exposed_ef, "", text.val)

\* lines 209-213, given base_text
format_sentences(template, baseline_ef, exposed_ef) ==
    exposed_sentence(format_pieces(template, baseline_ef, "not ", <<>>),
                     template, exposed_ef)

\* _generate_text
generate_text(baseline_ef, exposed_ef, population_size, precision, population_name, event_name, risk_factor_name, followup_duration) ==
    format_sentences(base_text(population_size, precision, population_name,
                               event_name, risk_factor_name, followup_duration),
                     baseline_ef, exposed_ef)

\* text.replace(",", ",\n")
RECURSIVE break_after_commas(_)
break_after_commas(text) ==
    IF text = <<>> THEN <<>>
    ELSE (IF Head(text) = Comma THEN <<Comma, Newline>> ELSE <<Head(text)>>)
         \o break_after_commas(Tail(text))

\* text.split("\n"): the lines of the text, the last one the text after the
\* last newline
RECURSIVE split_lines(_, _)
split_lines(text, line) ==
    IF text = <<>> THEN <<line>>
    ELSE IF Head(text) = Newline THEN <<line>> \o split_lines(Tail(text), <<>>)
    ELSE split_lines(Tail(text), Append(line, Head(text)))

\* a str built from pieces
Text(pieces) == [type |-> "str", pieces |-> pieces]

\* Python objects held in plot_kwargs
Str(s) == [type |-> "str", s |-> s]
Bool(b) == [type |-> "bool", b |-> b]
List(items) == [type |-> "list", items |-> items]
Dict(items) == [type |-> "dict", items |-> items]

\* bool(obj) of the objects used as conditions
truthy(obj) ==
    CASE obj.type = "NoneType" -> FALSE
      [] obj.type = "str" -> obj.s # ""
      [] obj.type = "bool" -> obj.b
      [] obj.type \in {"int", "float"} -> obj.num # 0
      [] obj.type \in {"list", "dict"} -> obj.items # <<>>

\* d[key] = value on the sequence of items of a dict
dict_set(d, key, value) ==
    IF \E i \in 1..Len(d) : d[i][1] = key
    THEN [i \in 1..Len(d) |-> IF d[i][1] = key THEN <<key, value>> ELSE d[i]]
    ELSE Append(d, <<key, value>>)

\* round(math.sqrt(population_size)) for population_size >= 0
rounded_sqrt(population_size) ==
    CHOOSE r \in 0..population_size :
        /\ (r = 0 \/ r * r - r < population_size)
        /\ population_size <= r * r + r

\* the keyword parameters of _plot_isotype_array
plot_isotype_array_keywords ==
    {"title", "configure_chart", "icon_shape", "icon_size", "stroke_color",
     "stroke_width", "cross_shape", "cross_width", "chart_width", "chart_height"}

TypeError(message) == [type |-> "TypeError", message |-> message]

\* kwargs.get(key, default) on the items of a dict
dict_get_default(d, key, default) ==
    IF \E i \in 1..Len(d) : d[i][1] = key
    THEN d[CHOOSE i \in 1..Len(d) : d[i][1] = key][2]
    ELSE default

\* lines 220-221
rounding_warnings(baseline_ef, exposed_ef) ==
    IF baseline_ef.type = "float" \/ exposed_ef.type = "float"
    THEN <<"Can't currently plot (color) fractional icons. Rounding to nearest integer.">>
    ELSE <<>>

\* lines 225-291, given the rounded counts: the chart (its data, grid width,
\* title, layers and whether it is configured)
isotype_chart(baseline_ef, exposed_ef, population_size, title, configure_chart, warnings) ==
    IF population_size < 0
    THEN [exc |-> ValueError(<<"math domain error">>), val |-> None,
          warned |-> warnings]
    ELSE [exc |-> NoError,
          val |-> [type |-> "Chart",
                   data |-> generate_chart_source_data(baseline_ef, exposed_ef,
                                                       population_size),
                   root |-> rounded_sqrt(population_size),
                   title |-> IF truthy(title) THEN title ELSE Str(""),
                   layers |-> IF exposed_ef < baseline_ef
                              THEN <<"icons", "stroke_out">> ELSE <<"icons">>,
                   configured |-> truthy(configure_chart)],
          warned |-> warnings]

\* _plot_isotype_array(baseline_ef, exposed_ef, population_size, **kwargs):
\* the chart and the warnings emitted, or the exception
plot_isotype_array(baseline_ef, exposed_ef, population_size, kwargs) ==
    IF \E i \in 1..Len(kwargs) : kwargs[i][1] \notin plot_isotype_array_keywords
    THEN [exc |-> TypeError(<<"unexpected keyword argument">>), val |-> None,
          warned |-> <<>>]
    ELSE isotype_chart(py_round(baseline_ef), py_round(exposed_ef), population_size,
                       dict_get_default(kwargs, "title", Str("")),
                       dict_get_default(kwargs, "configure_chart", Bool(TRUE)),
                       rounding_warnings(baseline_ef, exposed_ef))

\* mutant: the expected frequencies are rounded to the text precision before
\* they are stored in the result
result_frequencies_rounded(baseline_ef, exposed_ef, precision) ==
    <<PyFloat(round_half_even(baseline_ef.num * Pow10(precision), baseline_ef.den),
              Pow10(precision)),
      PyFloat(round_half_even(exposed_ef.num * Pow10(precision), exposed_ef.den),
              Pow10(precision))>>

\* the expected frequencies that expected_frequencies hands to the text, the
\* chart and the result (the rounding to precision is commented out)
result_frequencies(baseline_ef, exposed_ef, precision) == <<baseline_ef, exposed_ef>>

\* line 165: the items of the dict the call works on
working_kwargs(obj) == IF truthy(obj) THEN obj.items ELSE <<>>

\* line 179
plot_title(text, plot_text) ==
    IF plot_text THEN List(split_lines(break_after_commas(text), <<>>)) ELSE None

\* lines 180-181
with_title(kwargs, title) ==
    IF \E i \in 1..Len(kwargs) : kwargs[i][1] = "title"
    THEN kwargs
    ELSE dict_set(kwargs, "title", title)

\* The caller's plot_kwargs object after line 181: a non-empty dict is the
\* dict the call works on, None and an empty dict were replaced on line 165.
caller_kwargs(obj, kwargs) == IF truthy(obj) THEN Dict(kwargs) ELSE obj

\* lines 187-189, given the outcome of _plot_isotype_array
build_result(a, evaluated_funcs, kept, text, kwargs, chart) ==
    [exc |-> chart.exc,
     val |-> IF chart.exc # NoError THEN None
             ELSE [type |-> "ExpectedFrequencies",
                   baseline_expected_frequencies |-> kept[1],
                   exposed_expected_frequencies |-> kept[2],
                   chart |-> chart.val,
                   text |-> text],
     evaluated |-> evaluated_funcs,
     warned |-> chart.warned,
     plot_kwargs |-> caller_kwargs(a.plot_kwargs, kwargs)]

\* lines 182-189, given the kwargs after line 181
plot_and_build(a, evaluated_funcs, kept, text, kwargs) ==
    build_result(a, evaluated_funcs, kept, text, kwargs,
                 plot_isotype_array(kept[1], kept[2], a.population_size, kwargs))

\* lines 179-189, given the outcome of _generate_text
title_and_plot(a, evaluated_funcs, kept, text) ==
    IF text.exc # NoError
    THEN [exc |-> text.exc, val |-> None, evaluated |-> evaluated_funcs,
          warned |-> <<>>, plot_kwargs |-> a.plot_kwargs]
    ELSE plot_and_build(a, evaluated_funcs, kept, text.val,
                        with_title(working_kwargs(a.plot_kwargs),
                                   plot_title(text.val, a.plot_text)))

\* lines 173-189, given the expected frequencies
phrase_and_plot(a, evaluated_funcs, kept) ==
    title_and_plot(a, evaluated_funcs, kept,
                   generate_text(kept[1], kept[2], a.population_size, a.precision,
                                 a.population_name, a.event_name, a.risk_factor_name,
                                 a.followup_duration))

\* lines 170-189, given the outcome of _calculate_expected_frequencies
use_frequencies(a, ef) ==
    IF ef.exc # NoError
    THEN [exc |-> ef.exc, val |-> None, evaluated |-> ef.evaluated,
          warned |-> <<>>, plot_kwargs |-> a.plot_kwargs]
    ELSE phrase_and_plot(a, ef.evaluated,
                         result_frequencies(ef.val[1], ef.val[2], a.precision))

\* expected_frequencies: a (the arguments) holds plot_kwargs as the caller
\* passes it. The outcome is the result or the exception, the warnings, and
\* the caller's plot_kwargs object as the call leaves it.
expected_frequencies(a) ==
    use_frequencies(a, calculate_expected_frequencies(a.baseline_risk, a.added_risk,
                                                      a.added_risk_type,
                                                      a.population_size))

(***************************************************************************)
(* risk_conversions.py in floating-point arithmetic. Above, a float is the *)
(* exact value of the expression. Here every operation on floats rounds    *)
(* its exact result to the nearest float, a tie to the even significand,   *)
(* as IEEE-754 arithmetic does; the significand has MantissaBits bits and  *)
(* the exponent is not limited.                                            *)
(***************************************************************************)
RECURSIVE Pow2(_)
Pow2(k) == IF k <= 0 THEN 1 ELSE 2 * Pow2(k - 1)

\* the float sign * m * 2^e, m the integer nearest to n / (d * 2^e)
round_scaled_down(sign, n, d, e) ==
    PyFloat(sign * round_half_even(n, d * Pow2(e)) * Pow2(e), 1)

\* the float sign * m / 2^s, m the integer nearest to n * 2^s / d
round_scaled_up(sign, n, d, s) ==
    PyFloat(sign * round_half_even(n * Pow2(s), d), Pow2(s))

\* the float nearest to the exact value x: the significand n / (d * 2^e) or
\* n * 2^s / d is scaled into [2^(MantissaBits - 1), 2^MantissaBits) and
\* rounded to an integer
float_round(x) ==
    IF x.num = 0 THEN PyFloat(0, 1)
    ELSE IF Abs(x.num) >= x.den * Pow2(MantissaBits - 1)
    THEN round_scaled_down(IF x.num < 0 THEN -1 ELSE 1, Abs(x.num), x.den,
                           CHOOSE e \in 0..31 :
                               /\ Abs(x.num) < x.den * Pow2(MantissaBits + e)
                               /\ \A k \in 0..(e - 1) :
                                     Abs(x.num) >= x.den * Pow2(MantissaBits + k))
    ELSE round_scaled_up(IF x.num < 0 THEN -1 ELSE 1, Abs(x.num), x.den,
                         CHOOSE s \in 1..31 :
                             /\ Abs(x.num) * Pow2(s) >= x.den * Pow2(MantissaBits - 1)
                             /\ \A k \in 1..(s - 1) :
                                   Abs(x.num) * Pow2(k) < x.den * Pow2(MantissaBits - 1))

\* line 5 in floats, given the rounded denominator
odds_ratio_float_quotient(odds_ratio, den) ==
    IF IsZero(den) THEN Raise(ZeroDivisionError)
    ELSE Ok(float_round(TrueDiv(odds_ratio, den)))

\* __odds_ratio_to_risk_ratio in floats:
\* rr = odds_ratio / (1 - baseline_risk + (odds_ratio * baseline_risk))
odds_ratio_to_risk_ratio_float(baseline_risk, odds_ratio) ==
    odds_ratio_float_quotient(
        odds_ratio,
        float_round(Add(float_round(Sub(PyInt(1), baseline_risk)),
                        float_round(Mul(odds_ratio, baseline_risk)))))

\* line 42 in floats: baseline_risk * risk_ratio
exposed_risk_float(baseline_risk, risk_ratio) ==
    IF risk_ratio.exc # NoError THEN risk_ratio
    ELSE Ok(float_round(Mul(risk_ratio.val, baseline_risk)))

\* calculate_exposed_absolute_risk(baseline_risk, odds_ratio, "odds_ratio")
\* in floats
calculate_exposed_absolute_risk_float(baseline_risk, odds_ratio) ==
    exposed_risk_float(baseline_risk,
                       odds_ratio_to_risk_ratio_float(baseline_risk, odds_ratio))

\* line 197 in floats: population_size * exposed_absolute_risk
exposed_ef_float(population_size, exposed_absolute_risk) ==
    float_round(Mul(PyInt(population_size), exposed_absolute_risk))

(***************************************************************************)
(* forest_plot.py: the layers of the forest plot.                          *)
(***************************************************************************)
NotImplementedError(message) == [type |-> "NotImplementedError", message |-> message]

\* _get_no_effect_rule: a dashed rule at x = neutral, the value written into
\* the calculate transform with f'{neutral}'
get_no_effect_rule(neutral) ==
    [mark |-> "rule", calculate |-> Repr(neutral), x |-> "neutral:Q"]

\* _get_error_bars
get_error_bars(y, lower, upper) ==
    [mark |-> "errorbar", x |-> lower, x2 |-> upper, y |-> y]

\* forest_chart after "if lower and upper" and "if neutral" (lines 128-134
\* and 243-253): each layer is put in front of the point layer
forest_layers(y, lower, upper, neutral) ==
    (IF truthy(neutral) THEN <<get_no_effect_rule(neutral)>> ELSE <<>>)
    \o (IF truthy(lower) /\ truthy(upper) THEN <<get_error_bars(y, lower, upper)>>
        ELSE <<>>)
    \o <<[mark |-> "point", x |-> "x", y |-> y]>>

\* plot_single_forest
plot_single_forest(a) ==
    [type |-> "Chart", layers |-> forest_layers(Str("y"), a.lower, a.upper, a.neutral),
     text |-> a.with_text, row |-> None, column |-> None, logscale |-> a.logscale,
     configured |-> a.configure]

\* plot_facet_forest: with a hue, hue and y change places (lines 213-214)
plot_facet_forest(a) ==
    [type |-> "Chart",
     layers |-> forest_layers(IF truthy(a.hue) THEN a.hue ELSE Str("y"),
                              a.lower, a.upper, a.neutral),
     text |-> FALSE,
     row |-> IF truthy(a.hue) THEN Str("y") ELSE None,
     column |-> IF truthy(a.panel) THEN a.panel ELSE None,
     logscale |-> a.logscale, configured |-> a.configure]

\* plot_forest
plot_forest(a) ==
    IF a.with_text /\ (a.panel # None \/ a.hue # None)
    THEN Raise(NotImplementedError(<<"Can either add text or create multi-panel plot but not both.">>))
    ELSE IF a.panel # None \/ a.hue # None
    THEN Ok(plot_facet_forest(a))
    ELSE Ok(plot_single_forest(a))

(***************************************************************************)
(* The inputs of the calls.                                                *)
(***************************************************************************)
\* baseline risks in [0, 1] (floats, and the ints 0 and 1), and some outside
BaselineRisks ==
    UNION {{PyFloat(p, q) : p \in 0..q} : q \in 1..MaxRiskDen}
    \cup {PyInt(0), PyInt(1)}
    \cup {PyFloat(-1, 2), PyFloat(3, 2), PyInt(2)}

AddedRisks ==
    {PyFloat(p, 2) : p \in (-2 * MaxAddedRisk)..(2 * MaxAddedRisk)}
    \cup {PyInt(i) : i \in (-MaxAddedRisk)..MaxAddedRisk}
    \cup {PyFloat(1, 3), PyInt(-100), PyInt(50), PyFloat(-25, 1)}

\* s with the characters at the positions in mask upper-cased
case_variant(s, mask) ==
    [i \in 1..Len(s) |-> IF i \in mask THEN char_upper(s[i]) ELSE s[i]]

KindNames == {odds_ratio_name, hazard_ratio_name, percentage_change_name,
              risk_ratio_name, relative_risk_name}

KindVariants ==
    {case_variant(k, mask) : k \in KindNames, mask \in SUBSET (1..MaxCasePos)}
    \cup {str_upper(k) : k \in KindNames}

UnknownKinds ==
    { <<"b", "o", "g", "u", "s">>, <<>>, <<"o", "d", "d", "s">>,
      <<"o", "d", "d", "s", " ", "r", "a", "t", "i", "o">>,
      <<"o", "d", "d", "s", "_", "r", "a", "t", "i", "o", " ">>,
      <<"R", "R">>, <<"h", "r">>,
      <<"r", "e", "l", "a", "t", "i", "v", "e", "-", "r", "i", "s", "k">> }

AddedRiskTypes == KindVariants \cup UnknownKinds

PopulationSizes == 0..MaxPopulation
ExpectedCounts == (-MaxExcess)..(MaxPopulation + MaxExcess)

\* the smaller input space of the calls that take many arguments
SomeBaselineRisks == {PyInt(0), PyFloat(1, 5), PyFloat(1, 3), PyInt(1)}
SomeAddedRisks == {PyFloat(1, 2), PyFloat(3, 2), PyInt(2), PyInt(-100)}
SomeAddedRiskTypes == KindNames \cup {<<"b", "o", "g", "u", "s">>}
SomePopulationSizes == {0, MaxPopulation \div 2, MaxPopulation}
Precisions == (-1)..MaxPrecision
FollowupDurations == {<<>>, <<"3 years">>}
\* expected frequencies for _plot_isotype_array: ints, floats with an integral
\* value (1.0), halves (0.5, 1.5, 2.5), thirds, and a negative half
IconCounts ==
    {PyInt(i) : i \in 0..MaxIconCount}
    \cup {PyFloat(i, 2) : i \in 0..(2 * MaxIconCount)}
    \cup {PyFloat(i, 3) : i \in 0..(3 * MaxIconCount)}
    \cup {PyFloat(10, 1), PyFloat(15, 1), PyFloat(-1, 2)}
\* names for _generate_text: plain and empty ones, and ones with braces
PopulationNames ==
    {<<"patients">>, <<>>, <<"{">>, <<"}">>, <<"{", "{">>, <<"}", "}">>,
     <<"{", "}">>, <<"{", "ef", "}">>, <<"{", "exposed", "}">>, <<"{", "x", "}">>,
     <<"{", "{", "x", "}", "}">>, <<"{", "ef">>}
EventNames == {<<"a stroke">>, <<>>, <<"{", "ef">>, <<"{", "ef", "}">>}
RiskFactorNames == {<<"smoke">>, <<>>, <<"}">>, <<"{", "{", "smoke", "}", "}">>}
FollowupNames == FollowupDurations \cup {<<"}">>, <<"{", "exposed", "}">>}
\* expected frequencies for _generate_text
TextCounts == {PyInt(3), PyFloat(5, 2)}

\* values of no effect for plot_forest: none, 0 and 0.0, 1 and 1.0, 0.5
Neutrals == {None, PyInt(0), PyFloat(0, 1), PyInt(1), PyFloat(1, 1), PyFloat(1, 2)}
\* optional column names of plot_forest
Columns(name) == {None, Str(name)}

\* the floats in [1/8, 1), and 0.0 and 1.0
FloatRisks ==
    {PyFloat(mantissa, Pow2(MantissaBits + k)) :
        mantissa \in Pow2(MantissaBits - 1)..(Pow2(MantissaBits) - 1), k \in 0..2}
    \cup {PyFloat(0, 1), PyFloat(1, 1)}
\* the floats in [1/8, 2^(MaxOddsExp + 2)), and 0.0
FloatOdds ==
    {PyFloat(mantissa * Pow2(k), Pow2(MantissaBits + 2)) :
        mantissa \in Pow2(MantissaBits - 1)..(Pow2(MantissaBits) - 1),
        k \in 0..(MantissaBits + MaxOddsExp)}
    \cup {PyFloat(0, 1)}

PlotKwargs ==
    {None, Dict(<<>>),
     Dict(<< <<"title", Str("My title")>> >>),
     Dict(<< <<"configure_chart", Bool(FALSE)>> >>),
     Dict(<< <<"colour", Str("red")>> >>)}

\* the threads that call expected_frequencies on one shared dict
Threads == {1, 2}
\* the frame of a thread that has not called yet
IdleFrame == [pc |-> "idle"]

(***************************************************************************)
(* The calls. The caller is single-threaded: it makes one call from its    *)
(* idle state (called = "none"), holds the outcome of the call, and is     *)
(* idle again once it has taken the outcome (Return).                      *)
(***************************************************************************)
Init ==
    /\ called = "none"
    /\ args = <<>>
    /\ returned = None
    /\ raised = NoError
    /\ evaluated = <<>>
    /\ warned = <<>>
    /\ plot_kwargs = None
    /\ built_dict = <<>>
    /\ caller_dict = <<>>
    /\ title_writer = 0
    /\ frames = [t \in Threads |-> IdleFrame]

Call_calculate_exposed_absolute_risk ==
    /\ called = "none"
    /\ UNCHANGED caller_vars
    /\ \E baseline_risk \in BaselineRisks, added_risk \in AddedRisks,
          added_risk_type \in AddedRiskTypes :
        LET out == calculate_exposed_absolute_risk(baseline_risk, added_risk,
                                                   added_risk_type)
        IN  /\ called' = "calculate_exposed_absolute_risk"
            /\ args' = [baseline_risk |-> baseline_risk, added_risk |-> added_risk,
                        added_risk_type |-> added_risk_type]
            /\ returned' = out.val
            /\ raised' = out.exc
            /\ evaluated' = out.evaluated
            /\ warned' = <<>>
            /\ plot_kwargs' = None

Call_generate_chart_source_data ==
    /\ called = "none"
    /\ UNCHANGED caller_vars
    /\ \E baseline_ef \in ExpectedCounts, exposed_ef \in ExpectedCounts,
          population_size \in PopulationSizes :
        /\ called' = "__generate_chart_source_data"
        /\ args' = [baseline_ef |-> baseline_ef, exposed_ef |-> exposed_ef,
                    population_size |-> population_size]
        /\ returned' = [type |-> "Data",
                        values |-> generate_chart_source_data(baseline_ef, exposed_ef,
                                                             population_size)]
        /\ raised' = NoError
        /\ evaluated' = <<>>
        /\ warned' = <<>>
        /\ plot_kwargs' = None

Call_calculate_expected_frequencies ==
    /\ called = "none"
    /\ UNCHANGED caller_vars
    /\ \E baseline_risk \in BaselineRisks, added_risk \in SomeAddedRisks,
          added_risk_type \in SomeAddedRiskTypes, population_size \in SomePopulationSizes :
        LET out == calculate_expected_frequencies(baseline_risk, added_risk,
                                                  added_risk_type, population_size)
        IN  /\ called' = "_calculate_expected_frequencies"
            /\ args' = [baseline_risk |-> baseline_risk, added_risk |-> added_risk,
                        added_risk_type |-> added_risk_type,
                        population_size |-> population_size]
            /\ returned' = out.val
            /\ raised' = out.exc
            /\ evaluated' = out.evaluated
            /\ warned' = <<>>
            /\ plot_kwargs' = None

Call_expected_frequencies ==
    /\ called = "none"
    /\ UNCHANGED caller_vars
    /\ \E baseline_risk \in SomeBaselineRisks, added_risk \in SomeAddedRisks,
          added_risk_type \in SomeAddedRiskTypes, population_size \in SomePopulationSizes,
          precision \in Precisions, followup_duration \in FollowupDurations,
          kwargs \in PlotKwargs, plot_text \in BOOLEAN :
        LET a == [baseline_risk |-> baseline_risk, added_risk |-> added_risk,
                  added_risk_type |-> added_risk_type,
                  population_size |-> population_size, precision |-> precision,
                  population_name |-> <<"patients">>, event_name |-> <<"a stroke">>,
                  risk_factor_name |-> <<"smoke">>,
                  followup_duration |-> followup_duration,
                  plot_kwargs |-> kwargs, plot_text |-> plot_text]
            out == expected_frequencies(a)
        IN  /\ called' = "expected_frequencies"
            /\ args' = a
            /\ returned' = out.val
            /\ raised' = out.exc
            /\ evaluated' = out.evaluated
            /\ warned' = out.warned
            /\ plot_kwargs' = out.plot_kwargs

Call_plot_isotype_array ==
    /\ called = "none"
    /\ UNCHANGED caller_vars
    /\ \E baseline_ef \in IconCounts, exposed_ef \in IconCounts,
          population_size \in SomePopulationSizes, kwargs \in PlotKwargs :
        LET out == plot_isotype_array(baseline_ef, exposed_ef, population_size,
                                      working_kwargs(kwargs))
        IN  /\ called' = "_plot_isotype_array"
            /\ args' = [baseline_ef |-> baseline_ef, exposed_ef |-> exposed_ef,
                        population_size |-> population_size, kwargs |-> kwargs]
            /\ returned' = out.val
            /\ raised' = out.exc
            /\ evaluated' = <<>>
            /\ warned' = out.warned
            /\ plot_kwargs' = None

Call_generate_text ==
    /\ called = "none"
    /\ UNCHANGED caller_vars
    /\ \E baseline_ef \in TextCounts, exposed_ef \in TextCounts,
          precision \in Precisions, population_name \in PopulationNames,
          event_name \in EventNames, risk_factor_name \in RiskFactorNames,
          followup_duration \in FollowupNames :
        LET out == generate_text(baseline_ef, exposed_ef, MaxPopulation, precision,
                                 population_name, event_name, risk_factor_name,
                                 followup_duration)
        IN  /\ called' = "_generate_text"
            /\ args' = [baseline_ef |-> baseline_ef, exposed_ef |-> exposed_ef,
                        population_size |-> MaxPopulation, precision |-> precision,
                        population_name |-> population_name, event_name |-> event_name,
                        risk_factor_name |-> risk_factor_name,
                        followup_duration |-> followup_duration]
            /\ returned' = IF out.exc = NoError THEN Text(out.val) ELSE None
            /\ raised' = out.exc
            /\ evaluated' = <<>>
            /\ warned' = <<>>
            /\ plot_kwargs' = None

Call_plot_forest ==
    /\ called = "none"
    /\ UNCHANGED caller_vars
    /\ \E neutral \in Neutrals, hue \in Columns("group"), panel \in Columns("outcome"),
          lower \in Columns("lower"), upper \in Columns("upper"),
          with_text \in BOOLEAN, logscale \in BOOLEAN, configure \in BOOLEAN :
        LET a == [neutral |-> neutral, hue |-> hue, panel |-> panel, lower |-> lower,
                  upper |-> upper, with_text |-> with_text, logscale |-> logscale,
                  configure |-> configure]
        IN  /\ called' = "plot_forest"
            /\ args' = a
            /\ returned' = plot_forest(a).val
            /\ raised' = plot_forest(a).exc
            /\ evaluated' = <<>>
            /\ warned' = <<>>
            /\ plot_kwargs' = None

\* calculate_exposed_absolute_risk for an odds ratio, with the rounding of
\* every operation
Call_calculate_exposed_absolute_risk_float ==
    /\ called = "none"
    /\ UNCHANGED caller_vars
    /\ \E baseline_risk \in FloatRisks, odds_ratio \in FloatOdds :
        /\ called' = "calculate_exposed_absolute_risk in floats"
        /\ args' = [baseline_risk |-> baseline_risk, added_risk |-> odds_ratio,
                    added_risk_type |-> odds_ratio_name]
        /\ returned' = calculate_exposed_absolute_risk_float(baseline_risk, odds_ratio).val
        /\ raised' = calculate_exposed_absolute_risk_float(baseline_risk, odds_ratio).exc
        /\ evaluated' = <<"__odds_ratio_to_risk_ratio">>
        /\ warned' = <<>>
        /\ plot_kwargs' = None

\* the caller has taken the outcome of its call
Return ==
    /\ called # "none"
    /\ UNCHANGED caller_vars
    /\ called' = "none"
    /\ args' = <<>>
    /\ returned' = None
    /\ raised' = NoError
    /\ evaluated' = <<>>
    /\ warned' = <<>>
    /\ plot_kwargs' = None

Next ==
    \/ Call_calculate_exposed_absolute_risk
    \/ Call_generate_chart_source_data
    \/ Call_calculate_expected_frequencies
    \/ Call_expected_frequencies
    \/ Call_plot_isotype_array
    \/ Call_generate_text
    \/ Call_plot_forest
    \/ Call_calculate_exposed_absolute_risk_float
    \/ Return

Spec == Init /\ [][Next]_vars

(***************************************************************************)
(* Callers that share a dict. Each thread calls expected_frequencies once, *)
(* and may pass the one dict object that the caller built (CallerDict).    *)
(* A call runs statement by statement, so the calls may follow each other  *)
(* or interleave. The frame of a call holds its position (pc), its         *)
(* arguments (a), what its local name plot_kwargs refers to after line 165 *)
(* (kwargs: the caller's dict or a fresh one), and its other locals.       *)
(***************************************************************************)
\* the argument plot_kwargs when it is the caller's dict object
CallerDict == [type |-> "ref"]

\* the dicts a caller builds
BuiltDicts ==
    {<<>>, << <<"configure_chart", Bool(FALSE)>> >>, << <<"title", Str("My title")>> >>}

CallerRisks == {PyFloat(1, 5), PyFloat(1, 2)}

\* the arguments of the calls: a risk ratio of 2 on a population of 10, and
\* one call with an unsupported kind
CallerArgs ==
    {[baseline_risk |-> baseline_risk, added_risk |-> PyInt(2),
      added_risk_type |-> added_risk_type, population_size |-> 10, precision |-> 0,
      population_name |-> <<"patients">>, event_name |-> <<"a stroke">>,
      risk_factor_name |-> <<"smoke">>, followup_duration |-> <<>>,
      plot_kwargs |-> kwargs, plot_text |-> plot_text] :
        baseline_risk \in CallerRisks, added_risk_type \in {risk_ratio_name},
        kwargs \in {None, CallerDict}, plot_text \in BOOLEAN}
    \cup
    {[baseline_risk |-> PyFloat(1, 5), added_risk |-> PyInt(2),
      added_risk_type |-> <<"b", "o", "g", "u", "s">>, population_size |-> 10,
      precision |-> 0, population_name |-> <<"patients">>,
      event_name |-> <<"a stroke">>, risk_factor_name |-> <<"smoke">>,
      followup_duration |-> <<>>, plot_kwargs |-> CallerDict, plot_text |-> TRUE]}

InitCallers ==
    /\ called = "none"
    /\ args = <<>>
    /\ returned = None
    /\ raised = NoError
    /\ evaluated = <<>>
    /\ warned = <<>>
    /\ plot_kwargs = None
    /\ built_dict \in BuiltDicts
    /\ caller_dict = built_dict
    /\ title_writer = 0
    /\ frames = [t \in Threads |-> IdleFrame]

Active(t) == frames[t].pc \notin {"idle", "done"}

\* the items of the dict that the local name plot_kwargs of a frame refers to
deref(f) == IF f.kwargs = "caller" THEN caller_dict ELSE f.fresh

has_title(d) == \E i \in 1..Len(d) : d[i][1] = "title"

\* the frame reads a title that the call of another thread wrote
reads_other(t, f) ==
    f.kwargs = "caller" /\ has_title(caller_dict) /\ title_writer \notin {0, t}

\* a thread calls expected_frequencies(**a)
Begin(t) ==
    /\ frames[t].pc = "idle"
    /\ \E a \in CallerArgs :
        frames' = [u \in Threads |->
                    IF u = t
                    THEN [pc |-> "line165", a |-> a, read_other |-> FALSE,
                          overlapped |-> \E v \in Threads \ {t} : Active(v)]
                    ELSE IF Active(u) THEN [frames[u] EXCEPT !.overlapped = TRUE]
                    ELSE frames[u]]
    /\ UNCHANGED <<built_dict, caller_dict, title_writer>>
    /\ UNCHANGED call_vars

\* line 165: plot_kwargs = plot_kwargs if plot_kwargs else {}
Line165(t) ==
    /\ frames[t].pc = "line165"
    /\ frames' = [frames EXCEPT ![t] =
                    [pc |-> "line167", a |-> @.a, read_other |-> @.read_other,
                     overlapped |-> @.overlapped,
                     kwargs |-> IF @.a.plot_kwargs = CallerDict /\ truthy(Dict(caller_dict))
                                THEN "caller" ELSE "fresh",
                     fresh |-> <<>>]]
    /\ UNCHANGED <<built_dict, caller_dict, title_writer>>
    /\ UNCHANGED call_vars

\* a frame whose call has ended with outcome out
done_frame(f, out) ==
    [pc |-> "done", a |-> f.a, read_other |-> f.read_other,
     overlapped |-> f.overlapped, out |-> out]

\* lines 173-179, given the expected frequencies
frame_with_text(f, ef, text) ==
    IF text.exc # NoError
    THEN done_frame(f, [exc |-> text.exc, val |-> None, warned |-> <<>>])
    ELSE [pc |-> "line180", a |-> f.a, read_other |-> f.read_other,
          overlapped |-> f.overlapped, kwargs |-> f.kwargs, fresh |-> f.fresh,
          evaluated |-> ef.evaluated, kept |-> ef.val, text |-> text.val,
          title |-> plot_title(text.val, f.a.plot_text)]

\* lines 167-179, given the outcome of _calculate_expected_frequencies
frame_with_frequencies(f, ef) ==
    IF ef.exc # NoError
    THEN done_frame(f, [exc |-> ef.exc, val |-> None, warned |-> <<>>])
    ELSE frame_with_text(f, ef,
                         generate_text(ef.val[1], ef.val[2], f.a.population_size,
                                       f.a.precision, f.a.population_name,
                                       f.a.event_name, f.a.risk_factor_name,
                                       f.a.followup_duration))

\* lines 167-179: the locals baseline_ef, exposed_ef, text and plot_title
Line167(t) ==
    /\ frames[t].pc = "line167"
    /\ frames' = [frames EXCEPT ![t] =
                    frame_with_frequencies(@,
                        calculate_expected_frequencies(@.a.baseline_risk, @.a.added_risk,
                                                       @.a.added_risk_type,
                                                       @.a.population_size))]
    /\ UNCHANGED <<built_dict, caller_dict, title_writer>>
    /\ UNCHANGED call_vars

\* line 180: if "title" not in plot_kwargs.keys()
Line180(t) ==
    /\ frames[t].pc = "line180"
    /\ frames' = [frames EXCEPT ![t] =
                    [@ EXCEPT !.pc = IF has_title(deref(frames[t]))
                                     THEN "line182" ELSE "line181",
                              !.read_other = @ \/ reads_other(t, frames[t])]]
    /\ UNCHANGED <<built_dict, caller_dict, title_writer>>
    /\ UNCHANGED call_vars

\* line 181: plot_kwargs["title"] = plot_title
Line181(t) ==
    /\ frames[t].pc = "line181"
    /\ IF frames[t].kwargs = "caller"
       THEN /\ caller_dict' = dict_set(caller_dict, "title", frames[t].title)
            /\ title_writer' = t
            /\ frames' = [frames EXCEPT ![t].pc = "line182"]
       ELSE /\ frames' = [frames EXCEPT ![t].pc = "line182",
                                        ![t].fresh = dict_set(@, "title", frames[t].title)]
            /\ UNCHANGED <<caller_dict, title_writer>>
    /\ UNCHANGED built_dict
    /\ UNCHANGED call_vars

\* the outcome of the call, given the outcome of _plot_isotype_array
call_outcome(f, kwargs) ==
    build_result([f.a EXCEPT !.plot_kwargs = None], f.evaluated, f.kept, f.text, kwargs,
                 plot_isotype_array(f.kept[1], f.kept[2], f.a.population_size, kwargs))

\* lines 182-189: _plot_isotype_array(..., **plot_kwargs) and the result
Line182(t) ==
    /\ frames[t].pc = "line182"
    /\ frames' = [frames EXCEPT ![t] =
                    done_frame([@ EXCEPT !.read_other = @ \/ reads_other(t, frames[t])],
                               call_outcome(@, deref(frames[t])))]
    /\ UNCHANGED <<built_dict, caller_dict, title_writer>>
    /\ UNCHANGED call_vars

NextCallers ==
    \E t \in Threads :
        \/ Begin(t)
        \/ Line165(t)
        \/ Line167(t)
        \/ Line180(t)
        \/ Line181(t)
        \/ Line182(t)

SpecCallers == InitCallers /\ [][NextCallers]_vars

(***************************************************************************)
(* Properties of calculate_exposed_absolute_risk.                          *)
(***************************************************************************)
InCalculate == called = "calculate_exposed_absolute_risk"
KindIs(name) == str_lower(args.added_risk_type) = name
InUnitInterval(x) == NumLe(PyInt(0), x) /\ NumLe(x, PyInt(1))
Range(seq) == {seq[i] : i \in DOMAIN seq}

\* C1: for a kind whose lower-cased form is none of the five supported names,
\* calculate_exposed_absolute_risk returns no value and raises the error whose
\* message lists all five supported kinds, and no conversion function has been
\* evaluated.
C1_UnknownKindRaises ==
    (InCalculate /\ str_lower(args.added_risk_type) \notin KindNames) =>
        /\ returned.type = "NoneType"
        /\ raised.type = "ValueError"
        /\ Range(raised.message[2]) = KindNames
        /\ Len(raised.message[2]) = 5
        /\ evaluated = <<>>

C1_Witness ==
    /\ InCalculate
    /\ args.added_risk_type = <<"b", "o", "g", "u", "s">>
    /\ raised.type = "ValueError"

\* C2 (as claimed): for kind hazard_ratio and every baseline_risk in [0, 1],
\* b = 0 included, the conversion completes and the call returns b * v.
C2_HazardRatioAlwaysConverts ==
    (InCalculate /\ KindIs(hazard_ratio_name) /\ InUnitInterval(args.baseline_risk)) =>
        /\ raised.type = "NoError"
        /\ returned.type # "NoneType"
        /\ NumEq(returned, Mul(args.baseline_risk, args.added_risk))

\* C3 (as claimed): for kind odds_ratio, OR >= 0 and baseline_risk in [0, 1]
\* the conversion never divides by zero.
C3_DenominatorNeverZero ==
    (/\ InCalculate /\ KindIs(odds_ratio_name)
     /\ NumLe(PyInt(0), args.added_risk) /\ InUnitInterval(args.baseline_risk)) =>
        raised.type # "ZeroDivisionError"

\* C3 (amended): for kind odds_ratio, OR >= 0 and baseline_risk in [0, 1] the
\* conversion divides by zero exactly when baseline_risk = 1 and OR = 0; for
\* every other pair of that domain the denominator is non-zero and a value is
\* returned.
C3_DenominatorZeroOnlyAtOneZero ==
    (/\ InCalculate /\ KindIs(odds_ratio_name)
     /\ NumLe(PyInt(0), args.added_risk) /\ InUnitInterval(args.baseline_risk)) =>
        /\ (raised.type = "ZeroDivisionError") <=>
              (NumEq(args.baseline_risk, PyInt(1)) /\ IsZero(args.added_risk))
        /\ (raised.type = "NoError") <=>
              ~(NumEq(args.baseline_risk, PyInt(1)) /\ IsZero(args.added_risk))

C3_Witness ==
    /\ InCalculate /\ KindIs(odds_ratio_name)
    /\ NumEq(args.baseline_risk, PyInt(1)) /\ NumEq(args.added_risk, PyFloat(1, 2))
    /\ raised.type = "NoError"

\* C4: for kind odds_ratio and every (b, OR) with a non-zero denominator the
\* call returns b * OR / (1 - b + OR * b); b = 0 gives 0 for every OR, and
\* b = 1/5, OR = 2 gives 1/3.
C4_OddsRatioValue ==
    (InCalculate /\ KindIs(odds_ratio_name)) =>
        LET b == args.baseline_risk
            OR == args.added_risk
            den == Add(Sub(PyInt(1), b), Mul(OR, b))
        IN  ~IsZero(den) =>
                /\ raised.type = "NoError"
                /\ returned.type # "NoneType"
                /\ NumEq(returned, TrueDiv(Mul(b, OR), den))
                /\ IsZero(b) => IsZero(returned)
                /\ (NumEq(b, PyFloat(1, 5)) /\ NumEq(OR, PyInt(2))) =>
                        NumEq(returned, PyFloat(1, 3))

C4_Witness ==
    /\ InCalculate /\ KindIs(odds_ratio_name)
    /\ NumEq(args.baseline_risk, PyFloat(1, 5)) /\ NumEq(args.added_risk, PyInt(2))
    /\ returned.type # "NoneType" /\ NumEq(returned, PyFloat(1, 3))

\* C5: for kinds risk_ratio and relative_risk the call returns b * v for all b
\* and v, and the two names give the same result.
C5_RiskRatioAliases ==
    (InCalculate /\ (KindIs(risk_ratio_name) \/ KindIs(relative_risk_name))) =>
        /\ raised.type = "NoError"
        /\ returned.type # "NoneType"
        /\ NumEq(returned, Mul(args.baseline_risk, args.added_risk))
        /\ \A alias \in {risk_ratio_name, relative_risk_name} :
              LET other == calculate_exposed_absolute_risk(args.baseline_risk,
                                                           args.added_risk, alias)
              IN  other.exc = raised /\ other.val = returned

C5_Witness ==
    /\ InCalculate /\ KindIs(relative_risk_name)
    /\ NumEq(args.baseline_risk, PyFloat(1, 2)) /\ NumEq(args.added_risk, PyFloat(3, 2))
    /\ returned.type # "NoneType" /\ NumEq(returned, PyFloat(3, 4))

\* C6: for kind percentage_change the call returns b * (1 + v / 100) for all b
\* and v; v = 0 leaves the risk at b and v = -100 gives 0.
C6_PercentageChangeValue ==
    (InCalculate /\ KindIs(percentage_change_name)) =>
        LET b == args.baseline_risk
            v == args.added_risk
        IN  /\ raised.type = "NoError"
            /\ returned.type # "NoneType"
            /\ NumEq(returned, Mul(b, Add(PyInt(1), TrueDiv(v, PyInt(100)))))
            /\ IsZero(v) => NumEq(returned, b)
            /\ NumEq(v, PyInt(-100)) => IsZero(returned)

C6_Witness ==
    /\ InCalculate /\ KindIs(percentage_change_name)
    /\ NumEq(args.baseline_risk, PyFloat(1, 2)) /\ NumEq(args.added_risk, PyInt(50))
    /\ returned.type # "NoneType" /\ NumEq(returned, PyFloat(3, 4))

\* C7 (as claimed): for every upper/lower-case variant of a supported kind
\* name, and all b and v, the call succeeds and returns what the call with the
\* all-lower-case name returns.
C7_CaseVariantsSucceed ==
    (InCalculate /\ str_lower(args.added_risk_type) \in KindNames) =>
        /\ raised.type = "NoError"
        /\ returned.type # "NoneType"
        /\ returned = calculate_exposed_absolute_risk(
                          args.baseline_risk, args.added_risk,
                          str_lower(args.added_risk_type)).val

\* C7 (amended): for every upper/lower-case variant of a supported kind name,
\* and all b and v, the call never fails as an unsupported kind and has the
\* outcome of the call with the all-lower-case name: the same value, or the
\* same exception raised by the same conversion function.
C7_CaseVariantsAgree ==
    (InCalculate /\ str_lower(args.added_risk_type) \in KindNames) =>
        LET low == calculate_exposed_absolute_risk(
                       args.baseline_risk, args.added_risk,
                       str_lower(args.added_risk_type))
        IN  /\ raised.type # "ValueError"
            /\ raised = low.exc
            /\ returned = low.val
            /\ evaluated = low.evaluated

C7_Witness ==
    /\ InCalculate
    /\ args.added_risk_type = str_upper(odds_ratio_name)
    /\ NumEq(args.baseline_risk, PyFloat(1, 5)) /\ NumEq(args.added_risk, PyInt(2))
    /\ returned.type # "NoneType" /\ NumEq(returned, PyFloat(1, 3))

(***************************************************************************)
(* Properties of the icon-array source data.                               *)
(***************************************************************************)
InSourceData == called = "__generate_chart_source_data"

\* C9: for integers 0 <= baseline_ef <= exposed_ef <= population_size the
\* units with id 1..baseline_ef are baseline (hue 1), the units with id
\* baseline_ef+1..exposed_ef are exposed (hue 2), all the other units are
\* population (hue 0), and no unit is reduced.
C9_IncreaseBuckets ==
    (/\ InSourceData
     /\ 0 <= args.baseline_ef /\ args.baseline_ef <= args.exposed_ef
     /\ args.exposed_ef <= args.population_size) =>
        /\ Len(returned.values) = args.population_size
        /\ \A i \in 1..args.population_size :
              LET row == returned.values[i]
              IN  /\ row.id = i
                  /\ row.hue = (IF i <= args.baseline_ef THEN 1
                                ELSE IF i <= args.exposed_ef THEN 2 ELSE 0)
                  /\ row.reduced = FALSE

C9_Witness ==
    /\ InSourceData
    /\ args.baseline_ef = 10 /\ args.exposed_ef = 15 /\ args.population_size = 20
    /\ returned.values[10].hue = 1 /\ returned.values[11].hue = 2
    /\ returned.values[15].hue = 2 /\ returned.values[16].hue = 0

\* C10: for integers 0 <= exposed_ef < baseline_ef <= population_size exactly
\* the units with 0-based index in [baseline_ef - exposed_ef, baseline_ef) are
\* reduced, every unit with 0-based index < baseline_ef is baseline, all the
\* other units are population, and no unit is exposed.
C10_DecreaseBuckets ==
    (/\ InSourceData
     /\ 0 <= args.exposed_ef /\ args.exposed_ef < args.baseline_ef
     /\ args.baseline_ef <= args.population_size) =>
        /\ Len(returned.values) = args.population_size
        /\ \A i \in 1..args.population_size :
              LET row == returned.values[i]
                  index == i - 1
              IN  /\ row.id = i
                  /\ row.reduced = (/\ args.baseline_ef - args.exposed_ef <= index
                                    /\ index < args.baseline_ef)
                  /\ row.hue = (IF index < args.baseline_ef THEN 1 ELSE 0)

C10_Witness ==
    /\ InSourceData
    /\ args.baseline_ef = 10 /\ args.exposed_ef = 4 /\ args.population_size = 20
    /\ returned.values[6].reduced = FALSE /\ returned.values[7].reduced = TRUE
    /\ returned.values[10].reduced = TRUE /\ returned.values[11].reduced = FALSE
    /\ returned.values[10].hue = 1 /\ returned.values[11].hue = 0

(***************************************************************************)
(* Properties of the expected frequencies.                                 *)
(***************************************************************************)
\* population_size * baseline_risk and population_size * exposed_absolute_risk
ExpectedPair ==
    <<Mul(PyInt(args.population_size), args.baseline_risk),
      Mul(PyInt(args.population_size),
          calculate_exposed_absolute_risk(args.baseline_risk, args.added_risk,
                                          args.added_risk_type).val)>>

\* C8: _calculate_expected_frequencies returns exactly (population_size *
\* baseline_risk, population_size * exposed_absolute_risk), not rounded, and
\* the result of expected_frequencies carries the same two values whatever the
\* precision is.
C8_UnroundedFrequencies ==
    /\ (called = "_calculate_expected_frequencies" /\ raised.type = "NoError") =>
          returned = ExpectedPair
    /\ (called = "expected_frequencies" /\ raised.type = "NoError") =>
          /\ returned.baseline_expected_frequencies = ExpectedPair[1]
          /\ returned.exposed_expected_frequencies = ExpectedPair[2]

C8_Witness ==
    /\ called = "expected_frequencies"
    /\ raised.type = "NoError"
    /\ args.precision = 0
    /\ args.population_size = 20
    /\ NumEq(args.baseline_risk, PyFloat(1, 3))
    /\ returned.baseline_expected_frequencies = PyFloat(20, 3)
    /\ returned.exposed_expected_frequencies = PyFloat(10, 1)

(***************************************************************************)
(* Further properties of the icon-array source data.                       *)
(***************************************************************************)
\* the number of rows of the returned data that satisfy a condition
Reduced(row) == row.reduced
UncrossedBaseline(row) == row.hue = 1 /\ ~row.reduced
CountReduced == Cardinality({i \in DOMAIN returned.values : Reduced(returned.values[i])})
CountUncrossedBaseline ==
    Cardinality({i \in DOMAIN returned.values : UncrossedBaseline(returned.values[i])})

\* C11: for integers 0 <= exposed_ef < baseline_ef <= population_size the
\* number of units marked reduced is baseline_ef - exposed_ef, and the
\* number of baseline units that are not marked reduced is exposed_ef.
C11_ReducedCountIsDifference ==
    (/\ InSourceData
     /\ 0 <= args.exposed_ef /\ args.exposed_ef < args.baseline_ef
     /\ args.baseline_ef <= args.population_size) =>
        /\ CountReduced = args.baseline_ef - args.exposed_ef
        /\ CountUncrossedBaseline = args.exposed_ef

\* C12: for every population_size >= 0 and all integers baseline_ef and
\* exposed_ef, also ones above population_size, the data has exactly
\* population_size rows with ids 1..population_size in increasing order; an
\* exposed range that runs past the end of the list (0 <= baseline_ef <=
\* population_size < exposed_ef) stops at the last row.
C12_LengthIsPopulationSize ==
    InSourceData =>
        /\ raised.type = "NoError"
        /\ Len(returned.values) = args.population_size
        /\ \A i \in 1..Len(returned.values) : returned.values[i].id = i
        /\ (/\ 0 <= args.baseline_ef /\ args.baseline_ef <= args.population_size
            /\ args.population_size < args.exposed_ef) =>
              \A i \in 1..args.population_size :
                  returned.values[i].hue = (IF i <= args.baseline_ef THEN 1 ELSE 2)

C12_Witness ==
    /\ InSourceData
    /\ args.population_size = 20 /\ args.baseline_ef = 10 /\ args.exposed_ef = 21
    /\ Len(returned.values) = 20
    /\ returned.values[20].id = 20 /\ returned.values[20].hue = 2

(***************************************************************************)
(* Properties of _plot_isotype_array.                                      *)
(***************************************************************************)
InPlot == called = "_plot_isotype_array"
Integral(x) == x.den = 1

\* the integer nearest to x, the even one of the two when x is half-way
Nearest(x) ==
    CHOOSE k \in (-1)..(4 * MaxPopulation) :
        LET twice_gap == Abs(2 * x.num - 2 * k * x.den)
        IN  \/ twice_gap < x.den
            \/ twice_gap = x.den /\ k % 2 = 0

\* C13: _plot_isotype_array emits the rounding warning if and only if
\* baseline_ef or exposed_ef has a non-integral value (10.0 and 15.0 give no
\* warning); the warning does not abort the call, and the source data is
\* built from the rounded counts.
C13_WarnsIffNonIntegral ==
    (InPlot /\ raised.type # "TypeError") =>
        /\ (warned # <<>>) <=> (~Integral(args.baseline_ef) \/ ~Integral(args.exposed_ef))
        /\ raised.type = "NoError"
        /\ returned.data = generate_chart_source_data(Nearest(args.baseline_ef),
                                                      Nearest(args.exposed_ef),
                                                      args.population_size)

(***************************************************************************)
(* Properties of _generate_text.                                           *)
(***************************************************************************)
InText == called = "_generate_text"
Returns == raised.type = "NoError"

\* sub is a run of consecutive pieces of text
Contains(text, sub) ==
    \E i \in 1..(Len(text) - Len(sub) + 1) : SubSeq(text, i, i + Len(sub) - 1) = sub

\* "Out of {population_size} {population_name} who did {not }{risk_factor_name},
\* we should expect {ef} of them to also have {event_name}{ over
\* {followup_duration}}." and a newline, every name as the caller wrote it
TemplateSentence(ef, exposed) ==
    <<Lit("Out of "), Decimal(args.population_size), Lit(" ")>>
    \o name_pieces(args.population_name)
    \o <<Lit(" who did "), Lit(IF exposed THEN "" ELSE "not ")>>
    \o name_pieces(args.risk_factor_name)
    \o <<Comma, Lit(" we should expect "), Fixed(ef, args.precision),
         Lit(" of them to also have ")>>
    \o name_pieces(args.event_name)
    \o (IF args.followup_duration = <<>> THEN <<>>
        ELSE <<Lit(" over ")>> \o name_pieces(args.followup_duration))
    \o <<Lit("."), Newline>>

\* C14: the text that _generate_text returns is exactly two sentences, each
\* ending in "." and a newline: first the not-exposed sentence with
\* baseline_ef, then the exposed sentence with exposed_ef; both hold
\* population_size, population_name, risk_factor_name and event_name, and
\* " over {followup_duration}" exactly when followup_duration is not empty.
C14_TwoSentences ==
    (InText /\ Returns) =>
        returned.pieces = TemplateSentence(args.baseline_ef, FALSE)
                          \o TemplateSentence(args.exposed_ef, TRUE)

\* the names of the call
NamesOfCall ==
    {args.population_name, args.event_name, args.risk_factor_name,
     args.followup_duration}

\* C15: for every choice of the four name strings, also empty ones and ones
\* that hold "{" or "}", _generate_text (with a precision >= 0) returns
\* without raising, and every name stands verbatim in both sentences.
C15_NoFailureModes ==
    (InText /\ args.precision >= 0) =>
        /\ Returns
        /\ \A name \in NamesOfCall :
              /\ Contains(split_lines(returned.pieces, <<>>)[1], name_pieces(name))
              /\ Contains(split_lines(returned.pieces, <<>>)[2], name_pieces(name))

(***************************************************************************)
(* Properties of calls that follow each other or run concurrently.         *)
(***************************************************************************)
Done(t) == frames[t].pc = "done"

\* the outcome of the call when it is the only call ever made: the caller's
\* dict is as the caller built it
Alone(a) ==
    expected_frequencies([a EXCEPT !.plot_kwargs = IF a.plot_kwargs = CallerDict
                                                   THEN Dict(built_dict) ELSE None])

\* C16: calls of expected_frequencies made one after another: the outcome of
\* a call is the outcome of the same call made with no call before it, two
\* calls with the same arguments have the same outcome, and no call reads
\* state that an earlier call wrote.
C16_SameOutcomeInEverySequence ==
    \A t \in Threads :
        (Done(t) /\ ~frames[t].overlapped) =>
            /\ ~frames[t].read_other
            /\ frames[t].out.exc = Alone(frames[t].a).exc
            /\ frames[t].out.val = Alone(frames[t].a).val
            /\ \A u \in Threads :
                  (Done(u) /\ ~frames[u].overlapped /\ frames[u].a = frames[t].a) =>
                      frames[u].out = frames[t].out

\* C17: calls of expected_frequencies that run concurrently, also on the same
\* plot_kwargs dict object: in every interleaving each call ends as it does
\* when run alone, with the same text, expected frequencies and chart title,
\* and no call reads a title written by another call.
C17_EveryInterleavingAsAlone ==
    \A t \in Threads :
        Done(t) =>
            /\ ~frames[t].read_other
            /\ frames[t].out.exc = Alone(frames[t].a).exc
            /\ frames[t].out.exc = NoError =>
                  /\ frames[t].out.val.text = Alone(frames[t].a).val.text
                  /\ frames[t].out.val.baseline_expected_frequencies
                        = Alone(frames[t].a).val.baseline_expected_frequencies
                  /\ frames[t].out.val.exposed_expected_frequencies
                        = Alone(frames[t].a).val.exposed_expected_frequencies
                  /\ frames[t].out.val.chart.title = Alone(frames[t].a).val.chart.title

(***************************************************************************)
(* Properties of expected_frequencies and of the rounding of the counts.   *)
(***************************************************************************)
\* C18: after a call of expected_frequencies, whether it returned or raised,
\* the caller's plot_kwargs dict has the keys and values it had before the
\* call; no "title" key has been added.
C18_PlotKwargsUntouched ==
    called = "expected_frequencies" => plot_kwargs = args.plot_kwargs

\* C19: _plot_isotype_array assigns the buckets from baseline_ef and
\* exposed_ef each rounded to the nearest integer, a half going to the even
\* neighbour (0.5 to 0, 1.5 to 2, 2.5 to 2); counts with an integral value
\* are used as they are.
C19_RoundsHalfToEven ==
    (InPlot /\ Returns) =>
        /\ returned.data = generate_chart_source_data(Nearest(args.baseline_ef),
                                                      Nearest(args.exposed_ef),
                                                      args.population_size)
        /\ (Nearest(args.exposed_ef) < Nearest(args.baseline_ef))
              <=> (returned.layers = <<"icons", "stroke_out">>)
        /\ Integral(args.baseline_ef) => Nearest(args.baseline_ef) = args.baseline_ef.num
        /\ Integral(args.exposed_ef) => Nearest(args.exposed_ef) = args.exposed_ef.num

\* 0.5 baseline units and 2.5 exposed units colour no baseline unit and two
\* exposed units
C19_Witness ==
    /\ InPlot /\ Returns
    /\ args.baseline_ef = PyFloat(1, 2) /\ args.exposed_ef = PyFloat(5, 2)
    /\ args.population_size = MaxPopulation
    /\ returned.data[1].hue = 2 /\ returned.data[2].hue = 2 /\ returned.data[3].hue = 0

(***************************************************************************)
(* Properties of plot_forest.                                              *)
(***************************************************************************)
\* the chart has a no-effect rule at x = neutral
HasNoEffectRule(chart, neutral) ==
    \E i \in 1..Len(chart.layers) :
        chart.layers[i] = [mark |-> "rule", calculate |-> Repr(neutral), x |-> "neutral:Q"]

\* C20: the chart of plot_forest, single or faceted, has a no-effect rule at
\* x = neutral for every number given as neutral, 0 included, and has no
\* rule exactly when neutral is None.
C20_NeutralRuleUnlessNone ==
    (called = "plot_forest" /\ Returns) =>
        /\ args.neutral # None => HasNoEffectRule(returned, args.neutral)
        /\ args.neutral = None =>
              \A i \in 1..Len(returned.layers) : returned.layers[i].mark # "rule"

(***************************************************************************)
(* Properties of the source data for counts of any sign.                   *)
(***************************************************************************)
\* C21: for all integers baseline_ef and exposed_ef, negative ones and ones
\* above population_size included, and population_size >= 0: every unit has
\* one hue out of 0, 1 and 2, a reduced unit is a baseline unit (hue 1), and
\* the data never holds both an exposed unit (hue 2) and a reduced unit.
C21_BucketPlanInvariant ==
    InSourceData =>
        /\ \A i \in 1..Len(returned.values) :
              /\ returned.values[i].hue \in {0, 1, 2}
              /\ returned.values[i].reduced => returned.values[i].hue = 1
        /\ ~(/\ \E i \in 1..Len(returned.values) : returned.values[i].hue = 2
             /\ \E i \in 1..Len(returned.values) : returned.values[i].reduced)

\* negative counts: data[:-1] colours all units but the last, and
\* data[2:-1] crosses out the third and the fourth
C21_Witness ==
    /\ InSourceData
    /\ args.baseline_ef = -1 /\ args.exposed_ef = -3 /\ args.population_size = 5
    /\ returned.values[2].hue = 1 /\ ~returned.values[2].reduced
    /\ returned.values[3].reduced /\ returned.values[4].reduced
    /\ returned.values[4].hue = 1 /\ returned.values[5].hue = 0

(***************************************************************************)
(* Properties of the exposed risk of an odds ratio.                        *)
(***************************************************************************)
InCalculateFloat == called = "calculate_exposed_absolute_risk in floats"

\* b in [0, 1], OR >= 0, and the conversion is defined
OddsRatioDomain ==
    /\ KindIs(odds_ratio_name)
    /\ InUnitInterval(args.baseline_risk)
    /\ NumLe(PyInt(0), args.added_risk)
    /\ raised.type = "NoError"

\* C22: for kind odds_ratio, every baseline_risk in [0, 1] and every
\* OR >= 0 for which the conversion is defined, the exposed absolute risk
\* that the call returns lies in [0, 1], and population_size times that
\* risk is neither negative nor above population_size.
C22_OddsRatioRiskInUnitInterval ==
    ((InCalculate \/ InCalculateFloat) /\ OddsRatioDomain) =>
        /\ InUnitInterval(returned)
        /\ InCalculateFloat =>
              /\ NumLe(PyInt(0), exposed_ef_float(ScaledPopulation, returned))
              /\ NumLe(exposed_ef_float(ScaledPopulation, returned),
                       PyInt(ScaledPopulation))

====
